---------------------------- MODULE Spec2Model ----------------------------
(***************************************************************************)
(* serpent: a scheduling daemon.  cron.py parses a restricted 5-field cron *)
(* grammar into field matchers, tasks.py holds the task registry and the   *)
(* dispatch loop (Scheduler), serpent.py is the control-message handler    *)
(* and the process bootstrap.                                              *)
(*                                                                         *)
(* Text is modelled as a sequence of one-character strings, an instant as  *)
(* the number of whole minutes since 2024-01-01 00:00 UTC (a Monday).      *)
(***************************************************************************)
EXTENDS Integers, Sequences, FiniteSets, Bags, TLC

(***************************************************************************)
(* Python values                                                           *)
(***************************************************************************)

\* Python's None where the code holds an Optional[int] (start, stop, lit).
None == -1

\* Python's None where the code holds an Optional[Sequence[int]]; the code
\* only ever tests `_specifics` for truthiness, and no parse produces ().
NoSpecifics == << >>

\* msgpack nil in a decoded control message.
Nil == "nil"

(***************************************************************************)
(* Text                                                                    *)
(***************************************************************************)

DigitChars == <<"0", "1", "2", "3", "4", "5", "6", "7", "8", "9">>

LowerChars ==
    <<"a", "b", "c", "d", "e", "f", "g", "h", "i", "j", "k", "l", "m",
      "n", "o", "p", "q", "r", "s", "t", "u", "v", "w", "x", "y", "z">>

UpperChars ==
    <<"A", "B", "C", "D", "E", "F", "G", "H", "I", "J", "K", "L", "M",
      "N", "O", "P", "Q", "R", "S", "T", "U", "V", "W", "X", "Y", "Z">>

IsDigit(c) == \E i \in 1..10 : DigitChars[i] = c

DigitVal(c) == (CHOOSE i \in 1..10 : DigitChars[i] = c) - 1

\* str.upper(), one character
UpperChar(c) ==
    IF \E i \in 1..26 : LowerChars[i] = c
    THEN UpperChars[CHOOSE i \in 1..26 : LowerChars[i] = c]
    ELSE c

\* str.upper()
Upper(s) == [i \in 1..Len(s) |-> UpperChar(s[i])]

IsDigits(s) == Len(s) >= 1 /\ \A i \in 1..Len(s) : IsDigit(s[i])

RECURSIVE DigitsVal(_)
DigitsVal(s) ==
    IF s = << >> THEN 0
    ELSE 10 * DigitsVal(SubSeq(s, 1, Len(s) - 1)) + DigitVal(s[Len(s)])

\* int(string, base=10) succeeds: an optional sign, then decimal digits
\* (the texts of the model hold no blanks and no underscores).
IntOk(s) ==
    IF s # << >> /\ s[1] \in {"+", "-"} THEN IsDigits(Tail(s)) ELSE IsDigits(s)

\* int(string, base=10), where IntOk(s)
IntVal(s) ==
    IF s[1] = "-" THEN 0 - DigitsVal(Tail(s))
    ELSE IF s[1] = "+" THEN DigitsVal(Tail(s))
    ELSE DigitsVal(s)

\* str(n) of an int n >= 0
RECURSIVE Str(_)
Str(n) ==
    IF n < 10 THEN <<DigitChars[n + 1]>>
    ELSE Str(n \div 10) \o <<DigitChars[(n % 10) + 1]>>

\* string.split(sep) for a one-character sep: never empty, keeps empty parts
RECURSIVE SplitOn(_, _)
SplitOn(s, sep) ==
    IF \E i \in 1..Len(s) : s[i] = sep
    THEN LET k == CHOOSE i \in 1..Len(s) :
                      s[i] = sep /\ \A j \in 1..(i - 1) : s[j] # sep
         IN  <<SubSeq(s, 1, k - 1)>> \o SplitOn(SubSeq(s, k + 1, Len(s)), sep)
    ELSE <<s>>

\* string.split(): splits on runs of blanks, drops empty parts
SplitBlank(s) == SelectSeq(SplitOn(s, " "), LAMBDA p : p # << >>)

\* sep.join(parts)
RECURSIVE Join(_, _)
Join(parts, sep) ==
    IF parts = << >> THEN << >>
    ELSE IF Len(parts) = 1 THEN parts[1]
    ELSE parts[1] \o <<sep>> \o Join(Tail(parts), sep)

\* tuple(range(a, b))
Range(a, b) == IF b > a THEN [i \in 1..(b - a) |-> a + i - 1] ELSE << >>

\* tuple(dict.fromkeys(sorted(items))): ascending, duplicates dropped
RECURSIVE SortedSet(_)
SortedSet(S) ==
    IF S = {} THEN << >>
    ELSE LET m == CHOOSE x \in S : \A y \in S : x <= y
         IN  <<m>> \o SortedSet(S \ {m})

SortedDedup(items) == SortedSet({items[i] : i \in 1..Len(items)})

Contains(seq, v) == \E i \in 1..Len(seq) : seq[i] = v


(***************************************************************************)
(* cron.py: value parsers                                                  *)
(***************************************************************************)

WILDCARD == <<"*">>

\* WEEKDAYS: the name at position i has the value i - 1
WEEKDAYS ==
    << <<"M", "O", "N">>, <<"T", "U", "E">>, <<"W", "E", "D">>,
       <<"T", "H", "U">>, <<"F", "R", "I">>, <<"S", "A", "T">>,
       <<"S", "U", "N">> >>

\* MONTHS: the name at position i has the value i
MONTHS ==
    << <<"J", "A", "N">>, <<"F", "E", "B">>, <<"M", "A", "R">>,
       <<"A", "P", "R">>, <<"M", "A", "Y">>, <<"J", "U", "N">>,
       <<"J", "U", "L">>, <<"A", "U", "G">>, <<"S", "E", "P">>,
       <<"O", "C", "T">>, <<"N", "O", "V">>, <<"D", "E", "C">> >>

\* dict.get(key, None) on a name table, as the position of the name or 0
NameIndex(table, s) ==
    IF \E i \in 1..Len(table) : table[i] = s
    THEN CHOOSE i \in 1..Len(table) : table[i] = s
    ELSE 0

\* DIGIT_RANGE_RE.match(string): one or two digits, "-", one or two digits
DIGIT_RANGE_RE(s) ==
    \E k \in 2..3 :
        /\ Len(s) \in (k + 1)..(k + 2)
        /\ s[k] = "-"
        /\ IsDigits(SubSeq(s, 1, k - 1))
        /\ IsDigits(SubSeq(s, k + 1, Len(s)))

\* match.groups() of DIGIT_RANGE_RE
RangeGroups(s) ==
    LET k == CHOOSE i \in 2..3 : s[i] = "-" /\ IsDigits(SubSeq(s, 1, i - 1))
    IN  <<SubSeq(s, 1, k - 1), SubSeq(s, k + 1, Len(s))>>

\* parse_x raises ValueError: the result is [ok |-> FALSE, val |-> None]
ValueError == [ok |-> FALSE, val |-> None]

Value(v) == [ok |-> TRUE, val |-> v]

parse_minute(s) ==
    IF ~IntOk(s) THEN ValueError
    ELSE IF ~(0 <= IntVal(s) /\ IntVal(s) < 60) THEN ValueError
    ELSE Value(IntVal(s))

parse_hour(s) ==
    IF ~IntOk(s) THEN ValueError
    ELSE IF ~(0 <= IntVal(s) /\ IntVal(s) < 24) THEN ValueError
    ELSE Value(IntVal(s))

parse_day_of_month(s) ==
    IF ~IntOk(s) THEN ValueError
    ELSE IF ~(1 <= IntVal(s) /\ IntVal(s) <= 31) THEN ValueError
    ELSE Value(IntVal(s))

parse_month(s) ==
    IF NameIndex(MONTHS, Upper(s)) # 0 THEN Value(NameIndex(MONTHS, Upper(s)))
    ELSE IF ~IntOk(s) THEN ValueError
    ELSE IF ~(1 <= IntVal(s) /\ IntVal(s) <= 12) THEN ValueError
    ELSE Value(IntVal(s))

parse_weekday(s) ==
    IF NameIndex(WEEKDAYS, Upper(s)) # 0
    THEN Value(NameIndex(WEEKDAYS, Upper(s)) - 1)
    ELSE IF ~IntOk(s) THEN ValueError
    ELSE IF ~(0 <= IntVal(s) /\ IntVal(s) < 7) THEN ValueError
    ELSE Value(IntVal(s))

\* try_x: contextlib.suppress(ValueError) turns the error into None
try_minute(s) == parse_minute(s).val

try_hour(s) == parse_hour(s).val

try_day_of_month(s) == parse_day_of_month(s).val

try_month(s) == parse_month(s).val

try_weekday(s) == parse_weekday(s).val

\* `elif lit := try_x(string)`: an int is truthy unless it is 0, None is not
Truthy(lit) == lit # None /\ lit # 0

(***************************************************************************)
(* cron.py: the five field classes.  A field is the record of its slots.   *)
(***************************************************************************)

Field(is_all, start, stop, specifics) ==
    [all |-> is_all, start |-> start, stop |-> stop, specifics |-> specifics]

\* Field.parse raises ValueError
ParseError == [ok |-> FALSE, field |-> Field(FALSE, None, None, NoSpecifics)]

Parsed(f) == [ok |-> TRUE, field |-> f]

\* [parse_x(i) for i in string.split(",")], as the sequence of results
Items(s) == SplitOn(s, ",")

\* a list is parsed inside one `try`: one item that raises rejects the text
AllOk_any_item(items) == \E i \in 1..Len(items) : items[i].ok

AllOk(items) == \A i \in 1..Len(items) : items[i].ok

Vals(items) == [i \in 1..Len(items) |-> items[i].val]

MinutesField(is_all, specifics) == Field(is_all, None, None, specifics)

MinutesField_parse(s) ==
    IF s = WILDCARD THEN Parsed(MinutesField(TRUE, NoSpecifics))
    ELSE IF Truthy(try_minute(s))
    THEN Parsed(MinutesField(FALSE, <<try_minute(s)>>))
    ELSE LET items == [i \in 1..Len(Items(s)) |-> parse_minute(Items(s)[i])]
         IN  IF ~AllOk(items) THEN ParseError
             ELSE Parsed(MinutesField(FALSE, SortedDedup(Vals(items))))

HoursField(is_all, start, stop, specifics) ==
    IF start # None /\ stop # None
    THEN IF start = stop THEN Field(is_all, None, None, <<start>>)
         ELSE IF start < stop
         THEN Field(is_all, start, stop, Range(start, stop + 1))
         ELSE Field(is_all, start, stop, Range(0, start + 1) \o Range(stop, 24))
    ELSE Field(is_all, start, stop, specifics)

HoursField_parse(s) ==
    IF s = WILDCARD THEN Parsed(HoursField(TRUE, None, None, NoSpecifics))
    ELSE IF Truthy(try_hour(s))
    THEN Parsed(HoursField(FALSE, None, None, <<try_hour(s)>>))
    ELSE IF DIGIT_RANGE_RE(s)
    THEN LET g == RangeGroups(s)
         IN  IF ~(parse_hour(g[1]).ok /\ parse_hour(g[2]).ok) THEN ParseError
             ELSE Parsed(HoursField(FALSE, parse_hour(g[1]).val,
                                    parse_hour(g[2]).val, NoSpecifics))
    ELSE LET items == [i \in 1..Len(Items(s)) |-> parse_hour(Items(s)[i])]
         IN  IF ~AllOk(items) THEN ParseError
             ELSE Parsed(HoursField(FALSE, None, None,
                                    SortedDedup(Vals(items))))

\* __init__ sets self._specifics = None: the `specifics` argument is dropped
DaysOfMonthField(is_all, start, stop, specifics) ==
    IF start # None /\ stop # None
    THEN IF start = stop THEN Field(is_all, None, None, <<start>>)
         ELSE IF start < stop
         THEN Field(is_all, start, stop, Range(start, stop + 1))
         ELSE Field(is_all, start, stop, Range(1, start + 1) \o Range(stop, 32))
    ELSE Field(is_all, start, stop, NoSpecifics)

DaysOfMonthField_parse(s) ==
    IF s = WILDCARD THEN Parsed(DaysOfMonthField(TRUE, None, None, NoSpecifics))
    ELSE IF Truthy(try_day_of_month(s))
    THEN Parsed(DaysOfMonthField(FALSE, None, None, <<try_day_of_month(s)>>))
    ELSE IF DIGIT_RANGE_RE(s)
    THEN LET g == RangeGroups(s)
         IN  IF ~(parse_day_of_month(g[1]).ok /\ parse_day_of_month(g[2]).ok)
             THEN ParseError
             ELSE Parsed(DaysOfMonthField(FALSE, parse_day_of_month(g[1]).val,
                                          parse_day_of_month(g[2]).val,
                                          NoSpecifics))
    ELSE LET items == [i \in 1..Len(Items(s)) |-> parse_day_of_month(Items(s)[i])]
         IN  IF ~AllOk(items) THEN ParseError
             ELSE Parsed(DaysOfMonthField(FALSE, None, None,
                                          SortedDedup(Vals(items))))

MonthsField(is_all, start, stop, specifics) ==
    IF start # None /\ stop # None
    THEN IF start = stop THEN Field(is_all, None, None, <<start>>)
         ELSE IF start < stop
         THEN Field(is_all, start, stop, Range(start, stop + 1))
         ELSE Field(is_all, start, stop, Range(0, start + 1) \o Range(stop, 24))
    ELSE Field(is_all, start, stop, specifics)

MonthsField_parse(s) ==
    IF s = WILDCARD THEN Parsed(MonthsField(TRUE, None, None, NoSpecifics))
    ELSE IF Truthy(try_month(s))
    THEN Parsed(MonthsField(FALSE, None, None, <<try_month(s)>>))
    ELSE IF DIGIT_RANGE_RE(s)
    THEN LET g == RangeGroups(s)
         IN  IF ~(parse_month(g[1]).ok /\ parse_month(g[2]).ok) THEN ParseError
             ELSE Parsed(MonthsField(FALSE, parse_month(g[1]).val,
                                     parse_month(g[2]).val, NoSpecifics))
    ELSE LET items == [i \in 1..Len(Items(s)) |-> parse_month(Items(s)[i])]
         IN  IF ~AllOk(items) THEN ParseError
             ELSE Parsed(MonthsField(FALSE, None, None,
                                     SortedDedup(Vals(items))))

\* __init__ sets self._specifics = None: the `specifics` argument is dropped
WeekdaysField(is_all, start, stop, specifics) ==
    IF start # None /\ stop # None
    THEN IF start = stop THEN Field(is_all, None, None, <<start>>)
         ELSE IF start < stop
         THEN Field(is_all, start, stop, Range(start, stop + 1))
         ELSE Field(is_all, start, stop, Range(1, start + 1) \o Range(stop, 32))
    ELSE Field(is_all, start, stop, NoSpecifics)

WeekdaysField_parse(s) ==
    IF s = WILDCARD THEN Parsed(WeekdaysField(TRUE, None, None, NoSpecifics))
    ELSE IF Truthy(try_weekday(s))
    THEN Parsed(WeekdaysField(FALSE, None, None, <<try_weekday(s)>>))
    ELSE IF DIGIT_RANGE_RE(s)
    THEN LET g == RangeGroups(s)
         IN  IF ~(parse_weekday(g[1]).ok /\ parse_weekday(g[2]).ok)
             THEN ParseError
             ELSE Parsed(WeekdaysField(FALSE, parse_weekday(g[1]).val,
                                       parse_weekday(g[2]).val, NoSpecifics))
    ELSE LET items == [i \in 1..Len(Items(s)) |-> parse_weekday(Items(s)[i])]
         IN  IF ~AllOk(items) THEN ParseError
             ELSE Parsed(WeekdaysField(FALSE, None, None,
                                       SortedDedup(Vals(items))))

\* Field.field_match, on the timestamp's component for the field
field_match(f, component) ==
    IF f.specifics # NoSpecifics THEN Contains(f.specifics, component)
    ELSE TRUE

\* str(field) raises TypeError ("__str__ returned non-string"): a __str__
\* that falls off its end returns None
StrTypeError == [ok |-> FALSE, text |-> << >>]

Text(t) == [ok |-> TRUE, text |-> t]

\* ",".join(map(str, self._specifics))
JoinSpecifics(specifics) ==
    Join([i \in 1..Len(specifics) |-> Str(specifics[i])], ",")

\* str(field) of a MinutesField
MinutesField_str(f) ==
    IF f.all THEN Text(WILDCARD)
    ELSE IF f.specifics # NoSpecifics THEN Text(JoinSpecifics(f.specifics))
    ELSE StrTypeError

\* str(field) of the four fields that keep _start and _stop
RangeField_str(f) ==
    IF f.all THEN Text(WILDCARD)
    ELSE IF f.start # None /\ f.stop # None
    THEN Text(Str(f.start) \o <<"-">> \o Str(f.stop))
    ELSE IF f.specifics # NoSpecifics THEN Text(JoinSpecifics(f.specifics))
    ELSE StrTypeError

(***************************************************************************)
(* cron.py: CronEntry                                                      *)
(***************************************************************************)

CronEntry(m, h, dom, mon, dow) ==
    [minutes |-> m, hours |-> h, dom |-> dom, month |-> mon, wd |-> dow]

\* CronEntry.parse raises ValueError
EntryError ==
    [ok |-> FALSE,
     entry |-> CronEntry(ParseError.field, ParseError.field, ParseError.field,
                         ParseError.field, ParseError.field)]

CronEntry_parse(s) ==
    LET parts == SplitBlank(s)
    IN  IF Len(parts) # 5 THEN EntryError
        ELSE LET p0 == MinutesField_parse(parts[1])
                 p1 == HoursField_parse(parts[2])
                 p2 == DaysOfMonthField_parse(parts[3])
                 p3 == MonthsField_parse(parts[4])
                 p4 == WeekdaysField_parse(parts[5])
             IN  IF ~(p0.ok /\ p1.ok /\ p2.ok /\ p3.ok /\ p4.ok) THEN EntryError
                 ELSE [ok |-> TRUE,
                       entry |-> CronEntry(p0.field, p1.field, p2.field,
                                           p3.field, p4.field)]

\* `when` is a datetime: the record of its components
CronEntry_field_match(e, when) ==
    /\ field_match(e.minutes, when.minute)
    /\ field_match(e.hours, when.hour)
    /\ field_match(e.dom, when.day)
    /\ field_match(e.month, when.month)
    /\ field_match(e.wd, when.weekday)

\* str(entry): " ".join(map(str, fields)); TypeError if a field's str fails
CronEntry_str(e) ==
    LET parts == <<MinutesField_str(e.minutes), RangeField_str(e.hours),
                   RangeField_str(e.dom), RangeField_str(e.month),
                   RangeField_str(e.wd)>>
    IN  IF \E i \in 1..5 : ~parts[i].ok THEN StrTypeError
        ELSE Text(Join([i \in 1..5 |-> parts[i].text], " "))

(***************************************************************************)
(* datetime: the calendar of 2024 (a leap year; 1 January is a Monday)     *)
(***************************************************************************)

MonthLengths == <<31, 29, 31, 30, 31, 30, 31, 31, 30, 31, 30, 31>>

RECURSIVE DaysBefore(_)
DaysBefore(month) ==
    IF month = 1 THEN 0 ELSE DaysBefore(month - 1) + MonthLengths[month - 1]

\* the instant month-day hour:minute of 2024, in minutes since the epoch
At(month, day, hour, minute) ==
    (DaysBefore(month) + day - 1) * 1440 + hour * 60 + minute

RECURSIVE MonthDay(_, _)
MonthDay(d, m) ==
    IF d < MonthLengths[m] THEN <<m, d + 1>>
    ELSE MonthDay(d - MonthLengths[m], m + 1)

\* datetime's minute, hour, day, month and weekday() (Monday is 0) of the
\* wall-clock time t; the last days of December 2023 are t < 0
DateTime(t) ==
    LET d  == t \div 1440
        md == IF d < 0 THEN <<12, 32 + d>> ELSE MonthDay(d, 1)
    IN  [minute |-> t % 60, hour |-> (t \div 60) % 24, day |-> md[2],
         month |-> md[1], weekday |-> d % 7]

(***************************************************************************)
(* pytz: the zones the model knows, by name                                *)
(***************************************************************************)

ZoneNames == {"UTC", "Asia/Kolkata", "America/Phoenix"}

\* the zone's offset from UTC in minutes (none of the three has a DST rule)
UtcOffset(zone) ==
    CASE zone = "UTC" -> 0
      [] zone = "Asia/Kolkata" -> 330
      [] zone = "America/Phoenix" -> 0 - 420

\* pytz.timezone(name): UnknownTimeZoneError for a name pytz does not know
pytz_timezone(name) ==
    IF name \in ZoneNames THEN [ok |-> TRUE, zone |-> name]
    ELSE [ok |-> FALSE, zone |-> "UTC"]

\* when.astimezone(zone) of a UTC instant, as the zone's wall-clock time
astimezone_keeps_utc(when, zone) == when

astimezone(when, zone) == when + UtcOffset(zone)

\* TIMEZONE when SERPENT_TZ is not set
TIMEZONE == "UTC"

(***************************************************************************)
(* tasks.py: ScheduledPayloadTask                                          *)
(***************************************************************************)

ScheduledPayloadTask(schedule, payload, uuid, zone) ==
    [schedule |-> schedule, payload |-> payload, uuid |-> uuid, zone |-> zone]

check_time(task, when) ==
    CronEntry_field_match(task.schedule, DateTime(astimezone(when, task.zone)))

(***************************************************************************)
(* serpent.py: building a task from a control message                      *)
(***************************************************************************)

CREATE_SCHEDULED_PAYLOAD == "serpent.start"

REMOVE_SCHEDULED_PAYLOAD == "serpent.stop"

CRON == "cron"

\* a handler step raised: the task of the result is a placeholder
NoTask ==
    [ok |-> FALSE,
     task |-> ScheduledPayloadTask(EntryError.entry, "", "", "UTC")]

recv_to_task(s_type, s_parsable, tz, uuid, payload) ==
    IF s_type # CRON THEN NoTask
    ELSE IF ~CronEntry_parse(s_parsable).ok THEN NoTask
    ELSE [ok |-> TRUE,
          task |-> ScheduledPayloadTask(CronEntry_parse(s_parsable).entry,
                                        payload, uuid, tz)]

(***************************************************************************)
(* Bounds and inputs                                                       *)
(***************************************************************************)

\* wakes of the dispatch loop in one run
MaxTicks == 3

\* add_task and remove_task calls of the Scheduler's user in one run
MaxCalls == 3

\* __aenter__ calls on the one Scheduler in one run
MaxEnters == 2

\* control messages received in one run
MaxMsgs == 3

Ids == {"t1", "A"}

Tue0859 == At(1, 2, 8, 59)

Tue0900 == At(1, 2, 9, 0)

Tue1005 == At(1, 2, 10, 5)

Tue1010 == At(1, 2, 10, 10)

Sat0900 == At(1, 6, 9, 0)

\* what datetime.utcnow(), truncated to the minute, may return at any read:
\* the clock may stand still, jump ahead or go back
Readings == {Tue0859, Tue0900, Tue1005, Tue1010, Sat0900}

Daily0900 == <<"0", " ", "9", " ", "*", " ", "*", " ", "*">>

Weekdays0900 ==
    <<"0", " ", "9", " ", "*", " ", "*", " ", "M", "O", "N", "-", "F", "R", "I">>

Minutes5and10 == <<"5", ",", "1", "0", " ", "*", " ", "*", " ", "*", " ", "*">>

Minute61 == <<"6", "1", " ", "*", " ", "*", " ", "*", " ", "*">>

StepLikeSchedule ==
    <<"*", "/", ",", "1", ",", "2", ",", "3", " ", "*", " ", "*", " ", "*",
      " ", "*">>

\* the tasks the Scheduler's user adds: (schedule text, payload, uuid, zone)
TaskInputs ==
    << <<Daily0900, "ping", "t1", "UTC">>,
       <<Minutes5and10, "pa", "A", "UTC">>,
       <<Daily0900, "pb", "A", "Asia/Kolkata">>,
       <<Daily0900, "pc", "A", "UTC">> >>

MkTask(i) ==
    recv_to_task(CRON, TaskInputs[i][1], TaskInputs[i][4], TaskInputs[i][3],
                 TaskInputs[i][2]).task

UserTasks == [i \in 1..Len(TaskInputs) |-> MkTask(i)]

(***************************************************************************)
(* State                                                                   *)
(***************************************************************************)

VARIABLES
    tasks,            \* Scheduler._tasks: uuid -> ScheduledPayloadTask
    iter_lock,        \* Scheduler._iter_lock: "free" or its holder
    loop_task,        \* Scheduler._loop_task: "None", or the task's state
    must_cancel,      \* Task.cancel() was called and is not yet delivered
    last,             \* scheduling_loop's `last`
    now,              \* scheduling_loop's `now` of the pass in progress
    inflight,         \* bag of safe_send coroutines scheduled by gather
    sending,          \* bag of safe_send coroutines inside socket.send
    sent,             \* bag of payloads the socket accepted
    failed,           \* bag of payloads whose send raised (logged)
    passes,           \* history: the dispatch passes, in order
    ticks,            \* history: wakes of the loop
    skipped,          \* history: wakes that hit `continue`
    loops_created,    \* history: asyncio.create_task(scheduling_loop()) calls
    enters,           \* history: __aenter__ calls
    lifecycle_errors, \* history: RuntimeErrors raised by __aenter__
    scope,            \* the `async with` scope: "out", "in", "exited", "failed"
    calls,            \* history: add_task / remove_task calls awaited
    last_op,          \* history: the last such call
    prev_tasks,       \* history: _tasks before the last such call
    main_pc,          \* serpent.main: "start", "load", "recv", "closed"
    store,            \* the crontab table: uuid -> row
    nrecv,            \* history: control messages received
    lastmsg,          \* history: the last message received (index in Inbox)
    prev_bad,         \* history: the message before it was malformed
    acked,            \* history: per id, its last registration and its state
    logged,           \* history: the handler logged "Bad payload" for lastmsg
    f_kind,           \* field checks: which of the five field classes
    f_in,             \* field checks: the field text and what it denotes
    f_when,           \* field checks: the timestamp
    f_pc,             \* field checks: "off", "input", "parsed", "matched"
    f_parsed,         \* field checks: Field.parse(text)
    f_match,          \* field checks: field.field_match(when)
    e_in,             \* entry checks: the five field texts of the schedule
    e_when,           \* entry checks: the UTC instant
    e_zone,           \* entry checks: the task's zone
    e_pc,             \* entry checks: "off", "input", "parsed", ...
    e_parsed,         \* entry checks: CronEntry.parse(text)
    e_match,          \* entry checks: entry.field_match(when)
    e_due,            \* entry checks: task.check_time(when)
    e_str,            \* entry checks: str(entry)
    e_re              \* entry checks: CronEntry.parse(str(entry))

loopVars == <<iter_lock, loop_task, must_cancel, last, now, inflight, sending,
              sent, failed, passes, ticks, skipped>>

scopeVars == <<loops_created, enters, lifecycle_errors, scope>>

userVars == <<calls, last_op, prev_tasks>>

mainVars == <<main_pc, store, nrecv, lastmsg, prev_bad, acked, logged>>

fieldVars == <<f_kind, f_in, f_when, f_pc, f_parsed, f_match>>

entryVars == <<e_in, e_when, e_zone, e_pc, e_parsed, e_match, e_due, e_str,
               e_re>>

vars == <<tasks, loopVars, scopeVars, userVars, mainVars, fieldVars, entryVars>>

EmptyMap == [u \in {} |-> 0]

(***************************************************************************)
(* tasks.py: Scheduler                                                     *)
(***************************************************************************)

\* Scheduler.__init__
SchedulerInit ==
    /\ tasks = EmptyMap
    /\ iter_lock = "free"
    /\ loop_task = "None"
    /\ must_cancel = FALSE
    /\ last = None
    /\ now = None
    /\ inflight = EmptyBag
    /\ sending = EmptyBag
    /\ sent = EmptyBag
    /\ failed = EmptyBag
    /\ passes = << >>
    /\ ticks = 0
    /\ skipped = 0
    /\ loops_created = 0
    /\ enters = 0
    /\ lifecycle_errors = 0
    /\ scope = "out"

\* No coroutine runs while another is between two awaits: the dispatch loop
\* does not suspend between taking the lock and leaving the `async with`.
Idle == loop_task # "locked"

\* __aenter__: `if self._loop_task is not None: raise RuntimeError`
aenter_never_raises(lt) == FALSE

aenter_raises(lt) == lt # "None"

\* __aenter__
aenter ==
    /\ enters' = enters + 1
    /\ IF aenter_raises(loop_task)
       THEN /\ lifecycle_errors' = lifecycle_errors + 1
            /\ UNCHANGED <<loop_task, loops_created, scope>>
       ELSE /\ loop_task' = "pending"
            /\ loops_created' = loops_created + 1
            /\ scope' = "in"
            /\ UNCHANGED lifecycle_errors

\* Task.cancel() has an effect on a task that is not done
cancel(lt) == lt \in {"pending", "sleep"}

\* __aexit__(*args) cancels whatever args are
aexit_cancels_on_success_only(exc) == exc = "None"

aexit_cancels(exc) == TRUE

\* __aexit__, exc the exception leaving the scope or "None"
aexit(exc) ==
    must_cancel' = (must_cancel \/ (aexit_cancels(exc) /\ cancel(loop_task)))

\* add_task's critical section: self._tasks[task.uuid] = task
add_task_keeps_existing(reg, task) ==
    IF task.uuid \in DOMAIN reg THEN reg
    ELSE [u \in DOMAIN reg \cup {task.uuid} |->
             IF u = task.uuid THEN task ELSE reg[u]]

add_task(reg, task) ==
    [u \in DOMAIN reg \cup {task.uuid} |->
        IF u = task.uuid THEN task ELSE reg[u]]

\* remove_task's critical section: self._tasks.pop(uuid, None)
remove_task_pop_no_default(reg, uuid) ==
    [raised |-> uuid \notin DOMAIN reg,
     tasks |-> [u \in DOMAIN reg \ {uuid} |-> reg[u]]]

remove_task(reg, uuid) ==
    [raised |-> FALSE, tasks |-> [u \in DOMAIN reg \ {uuid} |-> reg[u]]]

\* `async with self._iter_lock:` takes the lock for the holder on entry and
\* frees it when the block is left, by its end or by an exception
acquire_skipped(holder) == "free"

acquire(holder) == holder

release_skipped(lock) == lock

release(lock) == "free"

\* scheduling_loop: `if now <= last: continue`
skip_only_earlier(n, l) == n < l

skip(n, l) == n <= l

\* the safe_send coroutines of a pass: one per task with check_time(now)
due_sends_every_task(reg, n) ==
    SetToBag({[uuid |-> u, payload |-> reg[u].payload, at |-> n] :
                 u \in DOMAIN reg})

due_sends(reg, n) ==
    SetToBag({[uuid |-> u, payload |-> reg[u].payload, at |-> n] :
                 u \in {v \in DOMAIN reg : check_time(reg[v], n)}})

\* the task starts: now = utcnow(), last = now - 1 minute, then sleep(15)
LoopStart ==
    /\ loop_task = "pending" /\ ~must_cancel
    /\ \E r \in Readings : last' = r - 1
    /\ loop_task' = "sleep"
    /\ UNCHANGED <<tasks, iter_lock, must_cancel, now, inflight, sending, sent, failed,
                   passes, ticks, skipped, scopeVars, userVars, mainVars,
                   fieldVars, entryVars>>

\* sleep(15) returns: read the clock, `continue` or take the lock
LoopWake ==
    /\ loop_task = "sleep" /\ ~must_cancel
    /\ ticks < MaxTicks
    /\ ticks' = ticks + 1
    /\ \E r \in Readings :
          IF skip(r, last)
          THEN /\ skipped' = skipped + 1
               /\ UNCHANGED <<loop_task, iter_lock, now>>
          ELSE /\ iter_lock = "free"
               /\ iter_lock' = acquire("loop")
               /\ loop_task' = "locked"
               /\ now' = r
               /\ UNCHANGED skipped
    /\ UNCHANGED <<tasks, must_cancel, last, inflight, sending, sent, failed, passes,
                   scopeVars, userVars, mainVars, fieldVars, entryVars>>

\* inside the lock: gather schedules the safe_send coroutines, then
\* asyncio.create_task(f) raises TypeError, f being a future and no
\* coroutine; the exception releases the lock and ends the loop's task
\* before `last = now`
LoopDispatch ==
    /\ loop_task = "locked"
    /\ inflight' = inflight (+) due_sends(tasks, now)
    /\ passes' = Append(passes, [at |-> now, last |-> last, acked |-> acked,
                                 scope |-> scope, tasks |-> tasks])
    /\ iter_lock' = release(iter_lock)
    /\ loop_task' = "TypeError"
    /\ UNCHANGED <<tasks, must_cancel, last, now, sending, sent, failed, ticks,
                   skipped,
                   scopeVars, userVars, mainVars, fieldVars, entryVars>>

\* CancelledError is thrown into the task where it is suspended
LoopCancelled ==
    /\ must_cancel /\ loop_task \in {"pending", "sleep"}
    /\ loop_task' = "cancelled"
    /\ must_cancel' = FALSE
    /\ UNCHANGED <<tasks, iter_lock, last, now, inflight, sending, sent, failed, passes,
                   ticks, skipped, scopeVars, userVars, mainVars, fieldVars, entryVars>>

\* safe_send starts: a coroutine scheduled by gather runs up to
\* `await self.socket.send(payload)`
SafeSendStart ==
    /\ Idle
    /\ \E c \in BagToSet(inflight) :
          /\ inflight' = inflight (-) SetToBag({c})
          /\ sending' = sending (+) SetToBag({c})
    /\ UNCHANGED <<tasks, iter_lock, loop_task, must_cancel, last, now, sent,
                   failed, passes, ticks, skipped, scopeVars, userVars,
                   mainVars, fieldVars, entryVars>>

\* safe_send: socket.send either returns or raises, and the exception is
\* logged
SafeSend ==
    /\ Idle
    /\ \E c \in BagToSet(sending) :
          /\ sending' = sending (-) SetToBag({c})
          /\ \/ sent' = sent (+) SetToBag({c}) /\ UNCHANGED failed
             \/ failed' = failed (+) SetToBag({c}) /\ UNCHANGED sent
    /\ UNCHANGED <<tasks, iter_lock, loop_task, must_cancel, last, now,
                   inflight, passes, ticks, skipped, scopeVars, userVars,
                   mainVars, fieldVars, entryVars>>

(***************************************************************************)
(* The Scheduler driven through its own operations by a user that awaits   *)
(* them: `async with sched:`, `await sched.add_task(t)`,                   *)
(* `await sched.remove_task(u)`.                                           *)
(***************************************************************************)

NoOp == [op |-> "none", uuid |-> "", input |-> 0, raised |-> FALSE]

UserInit ==
    /\ calls = 0
    /\ last_op = NoOp
    /\ prev_tasks = EmptyMap

\* `async with sched:` is entered, for the first time or again
UserEnter ==
    /\ Idle
    /\ enters < MaxEnters
    /\ aenter
    /\ UNCHANGED <<tasks, iter_lock, must_cancel, last, now, inflight, sending, sent,
                   failed, passes, ticks, skipped, userVars, mainVars,
                   fieldVars, entryVars>>

\* the scope is left, normally (exc = "None") or by an exception
UserExit ==
    /\ Idle
    /\ scope = "in"
    /\ \E exc \in {"None", "Exception"} :
          /\ aexit(exc)
          /\ scope' = IF exc = "None" THEN "exited" ELSE "failed"
    /\ UNCHANGED <<tasks, iter_lock, loop_task, last, now, inflight, sending, sent,
                   failed, passes, ticks, skipped, loops_created, enters,
                   lifecycle_errors, userVars, mainVars, fieldVars, entryVars>>

\* await sched.add_task(task): the lock is free whenever a coroutine runs
UserAddTask ==
    /\ Idle
    /\ iter_lock = "free"
    /\ calls < MaxCalls
    /\ \E i \in 1..Len(TaskInputs) :
          /\ tasks' = add_task(tasks, UserTasks[i])
          /\ last_op' = [op |-> "add", uuid |-> UserTasks[i].uuid, input |-> i,
                         raised |-> FALSE]
    /\ prev_tasks' = tasks
    /\ calls' = calls + 1
    /\ UNCHANGED <<loopVars, scopeVars, mainVars, fieldVars, entryVars>>

\* await sched.remove_task(uuid)
UserRemoveTask ==
    /\ Idle
    /\ iter_lock = "free"
    /\ calls < MaxCalls
    /\ \E u \in Ids :
          /\ tasks' = remove_task(tasks, u).tasks
          /\ last_op' = [op |-> "remove", uuid |-> u, input |-> 0,
                         raised |-> remove_task(tasks, u).raised]
    /\ prev_tasks' = tasks
    /\ calls' = calls + 1
    /\ UNCHANGED <<loopVars, scopeVars, mainVars, fieldVars, entryVars>>

(***************************************************************************)
(* serpent.py: the daemon                                                  *)
(***************************************************************************)

Row(payload, schedule, version, tzinfo) ==
    [payload |-> payload, schedule |-> schedule, version |-> version,
     tzinfo |-> tzinfo]

OneRow(uuid, row) == [u \in {uuid} |-> row]

\* what serpent.sqlite may hold when the process starts
InitialStores ==
    { EmptyMap,
      OneRow("t1", Row("ping", Daily0900, 1, "UTC")),
      OneRow("A", Row("pa", Minute61, 1, "UTC")),
      OneRow("A", Row("pa", Minutes5and10, 2, "UTC")),
      OneRow("t1", Row("old", Daily0900, 1, "UTC")),
      [u \in {"t1", "A"} |->
          IF u = "t1" THEN Row("ping", Daily0900, 1, "UTC")
          ELSE Row("pa", Minute61, 1, "UTC")] }

\* the decoded control messages that may arrive, in any order and number
Inbox ==
    << <<CREATE_SCHEDULED_PAYLOAD,
         <<"t1", <<"cron", Weekdays0900>>, "UTC", "ping">> >>,
       <<CREATE_SCHEDULED_PAYLOAD,
         <<"A", <<"cron", Minutes5and10>>, Nil, "pa">> >>,
       <<REMOVE_SCHEDULED_PAYLOAD, <<"cron", "A">> >>,
       <<CREATE_SCHEDULED_PAYLOAD,
         <<"t1", <<"cron", Daily0900>>, "UTC", "ping">> >>,
       <<CREATE_SCHEDULED_PAYLOAD>>,
       <<CREATE_SCHEDULED_PAYLOAD, <<"A", <<"cron", Daily0900>>, "pb">> >>,
       <<CREATE_SCHEDULED_PAYLOAD,
         <<"A", <<"interval", Daily0900>>, Nil, "pb">> >>,
       <<CREATE_SCHEDULED_PAYLOAD,
         <<"A", <<"cron", Minute61>>, Nil, "pb">> >>,
       <<CREATE_SCHEDULED_PAYLOAD,
         <<"A", <<"cron", Daily0900>>, "Mars/Phobos", "pb">> >>,
       <<REMOVE_SCHEDULED_PAYLOAD, <<"interval", "A">> >> >>

\* `scheduler.add_task(task)` without await: the call only builds a coroutine
\* object, which is dropped unrun; the registry is not touched
call_add_task_awaited(reg, task) == add_task(reg, task)

call_add_task(reg, task) == reg

\* `scheduler.remove_task(uuid)` without await, likewise
call_remove_task(reg, uuid) == reg

\* CronEntry.to_store: ("cron", 1, str(self)), as the text or the TypeError
to_store(e) == CronEntry_str(e)

\* store_task: str(schedule) may raise TypeError; INSERT raises
\* ConstraintError on a uuid the table holds (uuid is the PRIMARY KEY)
store_task(st, task) ==
    LET text == to_store(task.schedule)
    IN  IF ~text.ok THEN [raised |-> TRUE, store |-> st]
        ELSE IF task.uuid \in DOMAIN st THEN [raised |-> TRUE, store |-> st]
        ELSE [raised |-> FALSE,
              store |-> [u \in DOMAIN st \cup {task.uuid} |->
                            IF u = task.uuid
                            THEN Row(task.payload, text.text, 1, task.zone)
                            ELSE st[u]]]

\* unstore_task
unstore_task_any_kind(st, s_type, uuid) ==
    [raised |-> FALSE, store |-> [u \in DOMAIN st \ {uuid} |-> st[u]]]

unstore_task(st, s_type, uuid) ==
    IF s_type = CRON
    THEN [raised |-> FALSE, store |-> [u \in DOMAIN st \ {uuid} |-> st[u]]]
    ELSE [raised |-> TRUE, store |-> st]

\* What a turn of recv_loop's `while True` on the decoded message m comes
\* to before it touches the registry and the table:
\*   "left"    `topic, maybe_payload = ...` raised, before the `try`
\*   "raised"  a statement inside the `try` raised: caught and logged
\*   "create"  a task was built, "remove" a cancellation was unpacked
\*   "ignored" the topic is neither of the two
Step(step, task, s_type, uuid) ==
    [step |-> step, task |-> task, s_type |-> s_type, uuid |-> uuid]

decode_create(body) ==
    IF ~(Len(body) = 4 /\ Len(body[2]) = 2)
    THEN Step("raised", NoTask.task, "", "")
    ELSE LET uuid       == body[1]
             s_type     == body[2][1]
             s_parsable == body[2][2]
             tzi        == body[3]
             payload    == body[4]
             z == IF tzi # Nil THEN pytz_timezone(tzi)
                  ELSE [ok |-> TRUE, zone |-> TIMEZONE]
             t == recv_to_task(s_type, s_parsable, z.zone, uuid, payload)
         IN  IF ~z.ok THEN Step("raised", NoTask.task, "", "")
             ELSE IF ~t.ok THEN Step("raised", NoTask.task, "", "")
             ELSE Step("create", t.task, s_type, uuid)

decode_remove(body) ==
    IF Len(body) # 2 THEN Step("raised", NoTask.task, "", "")
    ELSE Step("remove", NoTask.task, body[1], body[2])

decode(m) ==
    IF Len(m) # 2 THEN Step("left", NoTask.task, "", "")
    ELSE IF m[1] = CREATE_SCHEDULED_PAYLOAD THEN decode_create(m[2])
    ELSE IF m[1] = REMOVE_SCHEDULED_PAYLOAD THEN decode_remove(m[2])
    ELSE Step("ignored", NoTask.task, "", "")

\* decode of every message of Inbox
Decoded == [i \in 1..Len(Inbox) |-> decode(Inbox[i])]

\* the rest of the turn: the registry call and the table statement
handle(d, reg, st) ==
    CASE d.step = "create" ->
           [left |-> FALSE, raised |-> store_task(st, d.task).raised,
            tasks |-> call_add_task(reg, d.task),
            store |-> store_task(st, d.task).store]
      [] d.step = "remove" ->
           [left |-> FALSE, raised |-> unstore_task(st, d.s_type, d.uuid).raised,
            tasks |-> call_remove_task(reg, d.uuid),
            store |-> unstore_task(st, d.s_type, d.uuid).store]
      [] d.step = "raised" ->
           [left |-> FALSE, raised |-> TRUE, tasks |-> reg, store |-> st]
      [] d.step = "ignored" ->
           [left |-> FALSE, raised |-> FALSE, tasks |-> reg, store |-> st]
      [] d.step = "left" ->
           [left |-> TRUE, raised |-> FALSE, tasks |-> reg, store |-> st]

\* get_all_tasks raises on a version-1 row: CronEntry.parse or pytz.timezone
load_raises(st) ==
    \E u \in DOMAIN st :
        /\ st[u].version = 1
        /\ \/ ~CronEntry_parse(st[u].schedule).ok
           \/ ~pytz_timezone(st[u].tzinfo).ok

\* the task get_all_tasks yields for the row of uuid u
row_task(st, u) ==
    ScheduledPayloadTask(CronEntry_parse(st[u].schedule).entry, st[u].payload,
                         u, pytz_timezone(st[u].tzinfo).zone)

\* `for task in get_all_tasks(connection): sched.add_task(task)`, where no
\* row raises
RECURSIVE load_all(_, _, _)
load_all(reg, st, rows) ==
    IF rows = {} THEN reg
    ELSE LET u == CHOOSE x \in rows : TRUE
         IN  load_all(call_add_task(reg, row_task(st, u)), st, rows \ {u})

NoAcks == [u \in Ids |-> [reg |-> 0, state |-> "none"]]

MainOff ==
    /\ main_pc = "off"
    /\ store = EmptyMap
    /\ nrecv = 0
    /\ lastmsg = 0
    /\ prev_bad = FALSE
    /\ acked = NoAcks
    /\ logged = FALSE

MainInit ==
    /\ main_pc = "start"
    /\ store \in InitialStores
    /\ nrecv = 0
    /\ lastmsg = 0
    /\ prev_bad = FALSE
    /\ acked = NoAcks
    /\ logged = FALSE

\* main up to its first await: the Scheduler is built and entered, the stored
\* tasks are loaded, recv_loop starts; an exception of the load leaves the
\* `async with`, whose __aexit__ runs
MainStart ==
    /\ main_pc = "start"
    /\ ~aenter_raises(loop_task)
    /\ enters' = enters + 1
    /\ loops_created' = loops_created + 1
    /\ loop_task' = "pending"
    /\ IF load_raises(store)
       THEN /\ must_cancel' = (must_cancel \/ aexit_cancels("Exception"))
            /\ scope' = "failed"
            /\ main_pc' = "closed"
            /\ UNCHANGED tasks
       ELSE /\ tasks' = load_all(tasks, store,
                                 {u \in DOMAIN store : store[u].version = 1})
            /\ scope' = "in"
            /\ main_pc' = "recv"
            /\ UNCHANGED must_cancel
    /\ UNCHANGED <<iter_lock, last, now, inflight, sending, sent, failed, passes, ticks,
                   skipped, lifecycle_errors, userVars, store, nrecv, lastmsg,
                   prev_bad, acked, logged, fieldVars, entryVars>>

(***************************************************************************)
(* What the messages of Inbox are meant to be (section 6 of the spec), for *)
(* the properties: a registration, a cancellation, or malformed; and the   *)
(* task id of the well-formed ones.                                        *)
(***************************************************************************)

InboxKind ==
    <<"reg", "reg", "cancel", "reg", "malformed", "malformed", "malformed",
      "malformed", "malformed", "malformed">>

InboxId == <<"t1", "A", "A", "t1", "", "", "", "", "", "">>

\* recv_loop receives message i of Inbox and handles it
Recv ==
    /\ Idle
    /\ main_pc = "recv"
    /\ nrecv < MaxMsgs
    /\ \E i \in 1..Len(Inbox) :
          LET h == handle(Decoded[i], tasks, store)
          IN  /\ tasks' = h.tasks
              /\ store' = h.store
              /\ logged' = h.raised
              /\ lastmsg' = i
              /\ acked' =
                    CASE InboxKind[i] = "reg" ->
                           [acked EXCEPT ![InboxId[i]] =
                                            [reg |-> i, state |-> "live"]]
                      [] InboxKind[i] = "cancel" ->
                           [acked EXCEPT ![InboxId[i]].state = "cancelled"]
                      [] OTHER -> acked
              /\ IF h.left
                 THEN /\ aexit("Exception")
                      /\ scope' = "failed"
                      /\ main_pc' = "closed"
                 ELSE UNCHANGED <<must_cancel, scope, main_pc>>
    /\ prev_bad' = (lastmsg # 0 /\ InboxKind[lastmsg] = "malformed")
    /\ nrecv' = nrecv + 1
    /\ UNCHANGED <<iter_lock, loop_task, last, now, inflight, sending, sent, failed,
                   passes, ticks, skipped, loops_created, enters,
                   lifecycle_errors, userVars, fieldVars, entryVars>>

(***************************************************************************)
(* The field classes on their own: a field text is parsed by one of the    *)
(* five classes and the field is matched against a timestamp.              *)
(***************************************************************************)

Kinds == {"minute", "hour", "dom", "month", "weekday"}

\* sample values of each field's domain: both ends and two inner values
Samples(kind) ==
    CASE kind = "minute"  -> {0, 1, 5, 59}
      [] kind = "hour"    -> {0, 1, 9, 23}
      [] kind = "dom"     -> {1, 2, 15, 31}
      [] kind = "month"   -> {1, 2, 5, 12}
      [] kind = "weekday" -> {0, 1, 5, 6}

RawTexts ==
    { <<"M", "O", "N", "-", "F", "R", "I">>,
      <<"m", "o", "n", ",", "w", "e", "d">>,
      <<"*", "/", ",", "1", ",", "2", ",", "3">>,
      <<"J", "A", "N">> }

\* field texts that put two forms in one field: a wildcard with something
\* else, a list that holds a range
ComboTexts ==
    { <<"*", "/", ",", "1", ",", "2", ",", "3">>,
      <<"*", ",", "1">>,
      <<"1", ",", "*">>,
      <<"*", "-", "3">>,
      <<"*", "/", "5">>,
      <<"1", ",", "2", "-", "3">>,
      <<"1", "-", "2", ",", "3">> }

\* the kinds whose values have names (MONTHS, WEEKDAYS)
NamedKinds == {"month", "weekday"}

\* the name of the value v of a kind that has names, in upper case
NameOf(kind, v) == IF kind = "weekday" THEN WEEKDAYS[v + 1] ELSE MONTHS[v]

\* the same name in lower case
LowerName(name) ==
    [i \in 1..Len(name) |->
        LowerChars[CHOOSE k \in 1..26 : UpperChars[k] = name[i]]]

\* a field text by its form: "*", "a", "a,b", "a-b", a raw text, a text that
\* combines forms, or a single value, list or range written with names
FieldInputs(kind) ==
    {[form |-> "wild", a |-> 0, b |-> 0, raw |-> << >>]}
    \cup {[form |-> "single", a |-> x, b |-> x, raw |-> << >>] :
             x \in Samples(kind)}
    \cup {[form |-> f, a |-> x, b |-> y, raw |-> << >>] :
             f \in {"list", "range"}, x \in Samples(kind), y \in Samples(kind)}
    \cup {[form |-> "raw", a |-> 0, b |-> 0, raw |-> t] : t \in RawTexts}
    \cup {[form |-> "combo", a |-> 0, b |-> 0, raw |-> t] : t \in ComboTexts}
    \cup {[form |-> "nsingle", a |-> x, b |-> x, raw |-> NameOf(kind, x)] :
             x \in IF kind \in NamedKinds THEN Samples(kind) ELSE {}}
    \cup {[form |-> "nlist", a |-> x, b |-> y,
            raw |-> LowerName(NameOf(kind, x)) \o <<",">>
                    \o LowerName(NameOf(kind, y))] :
             x \in IF kind \in NamedKinds THEN Samples(kind) ELSE {},
             y \in Samples(kind)}
    \cup {[form |-> "nrange", a |-> p[1], b |-> p[2],
            raw |-> NameOf(kind, p[1]) \o <<"-">> \o NameOf(kind, p[2])] :
             p \in IF kind = "weekday"
                   THEN {q \in Samples(kind) \X Samples(kind) : q[1] < q[2]}
                   ELSE {}}

FieldText(inp) ==
    CASE inp.form = "wild"   -> WILDCARD
      [] inp.form = "single" -> Str(inp.a)
      [] inp.form = "list"   -> Str(inp.a) \o <<",">> \o Str(inp.b)
      [] inp.form = "range"  -> Str(inp.a) \o <<"-">> \o Str(inp.b)
      [] inp.form = "raw"    -> inp.raw
      [] inp.form \in {"combo", "nsingle", "nlist", "nrange"} -> inp.raw

\* the text of the same single value, list or range written with numbers
NumericText(inp) ==
    CASE inp.form = "nsingle" -> Str(inp.a)
      [] inp.form = "nlist"   -> Str(inp.a) \o <<",">> \o Str(inp.b)
      [] inp.form = "nrange"  -> Str(inp.a) \o <<"-">> \o Str(inp.b)

\* the values a component of each kind can take
Domain(kind) ==
    CASE kind = "minute"  -> 0..59
      [] kind = "hour"    -> 0..23
      [] kind = "dom"     -> 1..31
      [] kind = "month"   -> 1..12
      [] kind = "weekday" -> 0..6

\* the timestamps the fields are matched against
Whens ==
    {Tue0859, Tue0900, Tue1005, Sat0900, At(5, 15, 23, 59), At(12, 31, 0, 1),
     At(2, 1, 1, 0)}

\* X.parse(text) of the class for the field
Parse(kind, text) ==
    CASE kind = "minute"  -> MinutesField_parse(text)
      [] kind = "hour"    -> HoursField_parse(text)
      [] kind = "dom"     -> DaysOfMonthField_parse(text)
      [] kind = "month"   -> MonthsField_parse(text)
      [] kind = "weekday" -> WeekdaysField_parse(text)

\* the component of `when` the class's field_match reads
Component(kind, when) ==
    CASE kind = "minute"  -> when.minute
      [] kind = "hour"    -> when.hour
      [] kind = "dom"     -> when.day
      [] kind = "month"   -> when.month
      [] kind = "weekday" -> when.weekday

FieldOff ==
    /\ f_kind = "minute"
    /\ f_in = [form |-> "wild", a |-> 0, b |-> 0, raw |-> << >>]
    /\ f_when = 0
    /\ f_pc = "off"
    /\ f_parsed = ParseError
    /\ f_match = FALSE

FieldInit ==
    /\ f_kind \in Kinds
    /\ f_in \in FieldInputs(f_kind)
    /\ f_when \in Whens
    /\ f_pc = "input"
    /\ f_parsed = ParseError
    /\ f_match = FALSE

FieldParse ==
    /\ f_pc = "input"
    /\ f_parsed' = Parse(f_kind, FieldText(f_in))
    /\ f_pc' = "parsed"
    /\ UNCHANGED <<tasks, loopVars, scopeVars, userVars, mainVars, f_kind,
                   f_in, f_when, f_match, entryVars>>

FieldMatch ==
    /\ f_pc = "parsed"
    /\ f_parsed.ok
    /\ f_match' = field_match(f_parsed.field,
                              Component(f_kind, DateTime(f_when)))
    /\ f_pc' = "matched"
    /\ UNCHANGED <<tasks, loopVars, scopeVars, userVars, mainVars, f_kind,
                   f_in, f_when, f_parsed, entryVars>>

(***************************************************************************)
(* CronEntry and ScheduledPayloadTask on their own: a schedule of five     *)
(* field texts is parsed, matched against a UTC instant, checked as the    *)
(* schedule of a task in a zone, written out with str and parsed again.    *)
(***************************************************************************)

FieldInput(form, a, b) == [form |-> form, a |-> a, b |-> b, raw |-> << >>]

\* the texts of each field of the schedule
EntryFieldInputs ==
    << {FieldInput("wild", 0, 0), FieldInput("single", 0, 0),
        FieldInput("list", 5, 10)},
       {FieldInput("wild", 0, 0), FieldInput("single", 9, 9),
        FieldInput("range", 9, 17)},
       {FieldInput("wild", 0, 0), FieldInput("single", 15, 15),
        FieldInput("list", 1, 15), FieldInput("range", 1, 15)},
       {FieldInput("wild", 0, 0), FieldInput("single", 1, 1)},
       {FieldInput("wild", 0, 0), FieldInput("single", 1, 1),
        FieldInput("list", 5, 6), FieldInput("range", 0, 4)} >>

EntryInputs ==
    EntryFieldInputs[1] \X EntryFieldInputs[2] \X EntryFieldInputs[3]
        \X EntryFieldInputs[4] \X EntryFieldInputs[5]

\* the schedule text: the five field texts with a blank between them
EntryText(inp) == Join([k \in 1..5 |-> FieldText(inp[k])], " ")

\* the UTC instants: 09:00 on Tuesday 2 January in UTC, in Asia/Kolkata and
\* in America/Phoenix, 09:00 UTC on Monday 15 January and on Saturday 6
EntryWhens ==
    {Tue0900, At(1, 2, 3, 30), At(1, 2, 16, 0), At(1, 15, 9, 0), Sat0900}

EntryOff ==
    /\ e_in = <<FieldInput("wild", 0, 0), FieldInput("wild", 0, 0),
                FieldInput("wild", 0, 0), FieldInput("wild", 0, 0),
                FieldInput("wild", 0, 0)>>
    /\ e_when = 0
    /\ e_zone = "UTC"
    /\ e_pc = "off"
    /\ e_parsed = EntryError
    /\ e_match = FALSE
    /\ e_due = FALSE
    /\ e_str = StrTypeError
    /\ e_re = EntryError

EntryInit ==
    /\ e_in \in EntryInputs
    /\ e_when \in EntryWhens
    /\ e_zone \in ZoneNames
    /\ e_pc = "input"
    /\ e_parsed = EntryError
    /\ e_match = FALSE
    /\ e_due = FALSE
    /\ e_str = StrTypeError
    /\ e_re = EntryError

\* CronEntry.parse(text)
EntryParse ==
    /\ e_pc = "input"
    /\ e_parsed' = CronEntry_parse(EntryText(e_in))
    /\ e_pc' = "parsed"
    /\ UNCHANGED <<tasks, loopVars, scopeVars, userVars, mainVars, fieldVars,
                   e_in, e_when, e_zone, e_match, e_due, e_str, e_re>>

\* entry.field_match(when), `when` in UTC
EntryMatch ==
    /\ e_pc = "parsed"
    /\ e_parsed.ok
    /\ e_match' = CronEntry_field_match(e_parsed.entry, DateTime(e_when))
    /\ e_pc' = "matched"
    /\ UNCHANGED <<tasks, loopVars, scopeVars, userVars, mainVars, fieldVars,
                   e_in, e_when, e_zone, e_parsed, e_due, e_str, e_re>>

\* ScheduledPayloadTask(entry, payload, uuid, zone).check_time(when)
EntryCheckTime ==
    /\ e_pc = "matched"
    /\ e_due' = check_time(ScheduledPayloadTask(e_parsed.entry, "ping", "t1",
                                                e_zone), e_when)
    /\ e_pc' = "checked"
    /\ UNCHANGED <<tasks, loopVars, scopeVars, userVars, mainVars, fieldVars,
                   e_in, e_when, e_zone, e_parsed, e_match, e_str, e_re>>

\* str(entry), which may raise TypeError
EntryStr ==
    /\ e_pc = "checked"
    /\ e_str' = CronEntry_str(e_parsed.entry)
    /\ e_pc' = IF CronEntry_str(e_parsed.entry).ok THEN "written"
               ELSE "str_raised"
    /\ UNCHANGED <<tasks, loopVars, scopeVars, userVars, mainVars, fieldVars,
                   e_in, e_when, e_zone, e_parsed, e_match, e_due, e_re>>

\* CronEntry.parse(str(entry))
EntryReparse ==
    /\ e_pc = "written"
    /\ e_re' = CronEntry_parse(e_str.text)
    /\ e_pc' = "reparsed"
    /\ UNCHANGED <<tasks, loopVars, scopeVars, userVars, mainVars, fieldVars,
                   e_in, e_when, e_zone, e_parsed, e_match, e_due, e_str>>

(***************************************************************************)
(* Specifications                                                          *)
(***************************************************************************)

\* the daemon: serpent.main with the dispatch loop it starts.  No safe_send
\* coroutine is ever created in the daemon (the registry stays empty, see
\* call_add_task), so SafeSend has no step to take here.
Init == SchedulerInit /\ UserInit /\ MainInit /\ FieldOff /\ EntryOff

Next ==
    \/ MainStart
    \/ Recv
    \/ LoopStart
    \/ LoopWake
    \/ LoopDispatch
    \/ LoopCancelled

Spec == Init /\ [][Next]_vars

\* the Scheduler class under a user that awaits its operations
InitSched == SchedulerInit /\ UserInit /\ MainOff /\ FieldOff /\ EntryOff

NextSched ==
    \/ UserEnter
    \/ UserExit
    \/ UserAddTask
    \/ UserRemoveTask
    \/ LoopStart
    \/ LoopWake
    \/ LoopDispatch
    \/ LoopCancelled
    \/ SafeSendStart
    \/ SafeSend

SpecSched == InitSched /\ [][NextSched]_vars

\* the field classes
InitField == SchedulerInit /\ UserInit /\ MainOff /\ FieldInit /\ EntryOff

NextField == FieldParse \/ FieldMatch

SpecField == InitField /\ [][NextField]_vars

\* CronEntry and ScheduledPayloadTask
InitEntry == SchedulerInit /\ UserInit /\ MainOff /\ FieldOff /\ EntryInit

NextEntry ==
    \/ EntryParse
    \/ EntryMatch
    \/ EntryCheckTime
    \/ EntryStr
    \/ EntryReparse

SpecEntry == InitEntry /\ [][NextEntry]_vars

(***************************************************************************)
(* Properties                                                              *)
(***************************************************************************)

\* every safe_send coroutine a pass has created, whatever became of it
Dispatched == inflight (+) sending (+) sent (+) failed

\* how many times `payload` was dispatched for the minute `at`
Emitted(payload, at) ==
    LET hits == {c \in BagToSet(Dispatched) : c.payload = payload /\ c.at = at}
    IN  BagCardinality([c \in hits |-> Dispatched[c]])

\* C1: the minutes of the dispatch passes increase strictly, each lies after
\* the `last` the loop held when the pass began, and no task is dispatched
\* twice for one minute, whatever the ticks and the clock readings.
C1_DispatchMinutesIncrease ==
    /\ \A i \in 1..Len(passes) : passes[i].at > passes[i].last
    /\ \A i, j \in 1..Len(passes) : i < j => passes[i].at < passes[j].at
    /\ \A c \in BagToSet(Dispatched) : CopiesIn(c, Dispatched) = 1

\* C1 witness: a pass ran after a tick that was skipped, and its payload
\* went out.
C1_Witness ==
    /\ Len(passes) = 1
    /\ skipped >= 1
    /\ ticks >= 2
    /\ sent # EmptyBag

\* C2: once recv_loop has handled a well-formed registration for an id, the
\* registry holds an entry for the id with the message's schedule, zone and
\* payload; once it has handled a cancellation, the registry holds none.
C2_RegistryFollowsMessages ==
    \A u \in Ids :
        /\ acked[u].state = "live" =>
              LET body == Inbox[acked[u].reg][2]
              IN  /\ u \in DOMAIN tasks
                  /\ tasks[u].payload = body[4]
                  /\ tasks[u].zone = (IF body[3] = Nil THEN TIMEZONE ELSE body[3])
                  /\ tasks[u].schedule = CronEntry_parse(body[2][2]).entry
        /\ acked[u].state = "cancelled" => u \notin DOMAIN tasks

\* C3: with the registration of t1 ("0 9 * * MON-FRI", ping, UTC) handled, a
\* pass for Tuesday 2024-01-02 09:00 UTC emits ping exactly once and a pass
\* for Saturday 2024-01-06 09:00 UTC emits nothing.
C3_WeekdayPingEndToEnd ==
    \A i \in 1..Len(passes) :
        passes[i].acked["t1"] = [reg |-> 1, state |-> "live"] =>
            /\ passes[i].at = Tue0900 => Emitted("ping", Tue0900) = 1
            /\ passes[i].at = Sat0900 => Emitted("ping", Sat0900) = 0

\* C4: a malformed control message never ends the receive loop, and a
\* well-formed registration received right after one is in the registry.
C4_MalformedNeverStopsReceiveLoop ==
    /\ (lastmsg # 0 /\ InboxKind[lastmsg] = "malformed") => main_pc = "recv"
    /\ (prev_bad /\ lastmsg # 0 /\ InboxKind[lastmsg] = "reg") =>
           InboxId[lastmsg] \in DOMAIN tasks

\* C5: add_task puts the task under its id, replacing an entry of that id
\* without growing the registry, and leaves every other entry as it was;
\* the registry holds one task per id, under the task's own id.
C5_AddTaskReplaces ==
    /\ last_op.op = "add" =>
          LET t == UserTasks[last_op.input]
          IN  /\ DOMAIN tasks = DOMAIN prev_tasks \cup {t.uuid}
              /\ tasks[t.uuid] = t
              /\ \A u \in DOMAIN prev_tasks \ {t.uuid} : tasks[u] = prev_tasks[u]
              /\ t.uuid \in DOMAIN prev_tasks =>
                     Cardinality(DOMAIN tasks) = Cardinality(DOMAIN prev_tasks)
    /\ \A u \in DOMAIN tasks : tasks[u].uuid = u

\* C5 witness: a task was added under an id that held a different task,
\* beside another id's entry.
C5_Witness ==
    /\ last_op.op = "add"
    /\ last_op.uuid \in DOMAIN prev_tasks
    /\ prev_tasks[last_op.uuid] # tasks[last_op.uuid]
    /\ Cardinality(DOMAIN tasks) = 2

\* C6: remove_task raises nothing; with an id the registry does not hold it
\* leaves the registry as it was, with an id it holds it removes that entry
\* and no other.
C6_RemoveTaskFrame ==
    last_op.op = "remove" =>
        /\ ~last_op.raised
        /\ last_op.uuid \notin DOMAIN prev_tasks => tasks = prev_tasks
        /\ DOMAIN tasks = DOMAIN prev_tasks \ {last_op.uuid}
        /\ \A u \in DOMAIN tasks : tasks[u] = prev_tasks[u]

\* C6 witness: an id the registry does not hold was removed from a registry
\* that holds another.
C6_Witness ==
    /\ last_op.op = "remove"
    /\ last_op.uuid \notin DOMAIN prev_tasks
    /\ prev_tasks # EmptyMap

\* C7: with A registered on minutes "5,10" and then cancelled, no pass that
\* begins after the cancellation dispatches A's payload.
C7_NoDispatchAfterCancel ==
    \A i \in 1..Len(passes) :
        passes[i].acked["A"] = [reg |-> 2, state |-> "cancelled"] =>
            \A c \in BagToSet(Dispatched) :
                ~(c.uuid = "A" /\ c.at = passes[i].at)

\* C7 witness: A was registered, then cancelled, and then a pass ran for
\* 10:05.
C7_Witness ==
    \E i \in 1..Len(passes) :
        /\ passes[i].acked["A"] = [reg |-> 2, state |-> "cancelled"]
        /\ passes[i].at = Tue1005

\* C8: a Scheduler creates at most one dispatch-loop task; the first
\* __aenter__ creates it and every later one raises, the scope open or not.
C8_SingleLoopTask ==
    /\ loops_created <= 1
    /\ enters >= 1 => loops_created = 1
    /\ lifecycle_errors = enters - loops_created

\* C8 witness: the scope was entered again after it had been left.
C8_Witness ==
    /\ enters = 2
    /\ lifecycle_errors = 1
    /\ scope \in {"exited", "failed"}

\* C9: leaving the scope, normally or by an exception, cancels the loop: the
\* loop's task is cancelled or over, and no pass begins after the exit.
C9_ExitCancelsLoop ==
    /\ scope \in {"exited", "failed"} =>
          (must_cancel \/ loop_task \in {"cancelled", "TypeError"})
    /\ \A i \in 1..Len(passes) : passes[i].scope \notin {"exited", "failed"}

\* C9 witness: the loop had woken, the scope was left by an exception, and
\* the loop was cancelled without a pass.
C9_Witness ==
    /\ scope = "failed"
    /\ loop_task = "cancelled"
    /\ ticks >= 1
    /\ passes = << >>

\* the values a field text of the form single, list or range (a <= b) gives
Denoted(inp) ==
    CASE inp.form = "single" -> {inp.a}
      [] inp.form = "list"   -> {inp.a, inp.b}
      [] inp.form = "range"  -> inp.a..inp.b
      [] OTHER               -> {}

\* C10: for each of the five fields, field_match is true iff the field was
\* parsed from the wildcard or the timestamp's component is one of the values
\* of the single value, list or range the field was parsed from.
C10_FieldMatchIsMembership ==
    (/\ f_pc = "matched"
     /\ \/ f_in.form \in {"wild", "single", "list"}
        \/ f_in.form = "range" /\ f_in.a <= f_in.b)
    => f_match = (\/ f_in.form = "wild"
                  \/ Component(f_kind, DateTime(f_when)) \in Denoted(f_in))

\* C12: in the hour, day-of-month and weekday fields a range a-b with a > b
\* is accepted and matches exactly the values from a to the end of the domain
\* and from the start of the domain to b.
C12_RangeWrapsAround ==
    (/\ f_pc \in {"parsed", "matched"}
     /\ f_kind \in {"hour", "dom", "weekday"}
     /\ f_in.form = "range" /\ f_in.a > f_in.b)
    => /\ f_parsed.ok
       /\ \A c \in Domain(f_kind) :
              field_match(f_parsed.field, c) = (c >= f_in.a \/ c <= f_in.b)

\* C14: a field text that combines forms is rejected by each of the five
\* field classes, and the schedule "*/,1,2,3 * * * *" gives no task.
C14_CombinedFormsRejected ==
    /\ (f_pc = "parsed" /\ f_in.form = "combo") => ~f_parsed.ok
    /\ f_pc = "parsed" =>
          ~recv_to_task(CRON, StepLikeSchedule, TIMEZONE, "t1", "ping").ok

\* C14 witness: the minute field "*/,1,2,3" has been parsed, and rejected.
C14_Witness ==
    /\ f_pc = "parsed"
    /\ f_kind = "minute"
    /\ f_in.form = "combo"
    /\ f_in.raw = <<"*", "/", ",", "1", ",", "2", ",", "3">>
    /\ f_parsed = ParseError

\* C15: the minute field and the month field reject every range text.
C15_NoRangeInMinuteAndMonth ==
    (/\ f_pc \in {"parsed", "matched"}
     /\ f_kind \in {"minute", "month"}
     /\ f_in.form = "range")
    => ~f_parsed.ok

\* C16: a month or weekday field written with names, in either case, is
\* accepted wherever the same field written with numbers is, and matches
\* the same values.
C16_NamesMeanTheirNumbers ==
    (/\ f_pc \in {"parsed", "matched"}
     /\ f_in.form \in {"nsingle", "nlist", "nrange"}
     /\ Parse(f_kind, NumericText(f_in)).ok)
    => /\ f_parsed.ok
       /\ \A c \in Domain(f_kind) :
              field_match(f_parsed.field, c)
                  = field_match(Parse(f_kind, NumericText(f_in)).field, c)

\* the timestamp component c satisfies the field text inp
Satisfies(inp, c) == inp.form = "wild" \/ c \in Denoted(inp)

\* the five components of a timestamp, in the order of the fields
Components(when) ==
    <<when.minute, when.hour, when.day, when.month, when.weekday>>

\* the five field matches of an entry at a timestamp, ANDed
AllFieldsMatch(e, when) ==
    /\ field_match(e.minutes, when.minute)
    /\ field_match(e.hours, when.hour)
    /\ field_match(e.dom, when.day)
    /\ field_match(e.month, when.month)
    /\ field_match(e.wd, when.weekday)

\* C11: CronEntry.field_match is the AND of the five field matches, and a
\* timestamp that violates one of the five fields, the others satisfied or
\* not, does not match.
C11_EntryMatchIsConjunction ==
    e_pc \in {"matched", "checked", "written", "str_raised", "reparsed"} =>
        /\ e_match = AllFieldsMatch(e_parsed.entry, DateTime(e_when))
        /\ (\E k \in 1..5 :
               ~Satisfies(e_in[k], Components(DateTime(e_when))[k]))
           => ~e_match

\* C13: str of a parsed entry is a text CronEntry.parse accepts, and the
\* entry parsed from it matches the same timestamps as the first.
C13_StrRoundTrip ==
    /\ e_pc # "str_raised"
    /\ e_pc = "reparsed" =>
          /\ e_re.ok
          /\ \A w \in EntryWhens \cup Whens :
                 CronEntry_field_match(e_re.entry, DateTime(w))
                     = CronEntry_field_match(e_parsed.entry, DateTime(w))

\* C17: check_time of a UTC instant is the schedule's match on the minute,
\* hour, day, month and weekday of the instant in the task's zone.
C17_CheckTimeInTaskZone ==
    e_pc \in {"checked", "written", "str_raised", "reparsed"} =>
        e_due = AllFieldsMatch(e_parsed.entry,
                               DateTime(e_when + UtcOffset(e_zone)))

\* C17 witness: 03:30 UTC is 09:00 in Asia/Kolkata: the task of "0 9 * * *"
\* is due there although the UTC components do not match.
C17_Witness ==
    /\ e_pc = "checked"
    /\ e_zone = "Asia/Kolkata"
    /\ e_when = At(1, 2, 3, 30)
    /\ e_in[1].form = "single" /\ e_in[2].form = "single"
    /\ e_due
    /\ ~e_match

\* the safe_send coroutines created for the minute `at`
DispatchedAt(at) == {c \in BagToSet(Dispatched) : c.at = at}

\* C18: a send that fails is contained: the safe_send of every other task
\* due in that pass was created and is not lost, the loop goes on while the
\* scope is open, and the failure takes no task out of the registry.
C18_SendFailureContained ==
    /\ [](\A c \in BagToSet(failed) :
             /\ \A i \in 1..Len(passes) :
                    passes[i].at = c.at =>
                        \A u \in DOMAIN passes[i].tasks :
                            check_time(passes[i].tasks[u], c.at) =>
                                \E d \in DispatchedAt(c.at) : d.uuid = u
             /\ scope = "in" => loop_task \in {"sleep", "locked"})
    /\ [][failed' # failed => tasks' = tasks]_vars

\* C19: while the scope is open the loop's task is alive, and after a pass
\* `last` is the minute of that pass.
C19_LoopRunsWhileScopeOpen ==
    /\ scope = "in" => loop_task \in {"pending", "sleep", "locked"}
    /\ passes # << >> => last = passes[Len(passes)].at

\* when the task of TaskInputs[i] is due, by its schedule text and zone
ExpectedDue(i, minute) ==
    CASE i \in {1, 4} -> minute % 1440 = 540
      [] i = 2        -> minute % 60 \in {5, 10}
      [] i = 3        -> (minute + 330) % 1440 = 540

\* C20: the safe_send coroutines of a pass for the minute M are those of
\* the registry's tasks due at M, one each: every task due at M, and no
\* task that was due only at a minute between `last` and M.
C20_PassSendsExactlyTheDue ==
    \A i \in 1..Len(passes) :
        LET reg == passes[i].tasks
            M   == passes[i].at
        IN  /\ DispatchedAt(M) =
                  {[uuid |-> u, payload |-> reg[u].payload, at |-> M] :
                      u \in {v \in DOMAIN reg :
                                 \E k \in 1..Len(TaskInputs) :
                                     /\ UserTasks[k] = reg[v]
                                     /\ ExpectedDue(k, M)}}
            /\ \A c \in DispatchedAt(M) : CopiesIn(c, Dispatched) = 1

\* C20 witness: the loop held a `last` before 09:00 and woke at 10:05 with the
\* daily 09:00 task and the "5,10" task registered: the pass sent the second
\* and nothing for the first.
C20_Witness ==
    \E i \in 1..Len(passes) :
        /\ passes[i].at = Tue1005
        /\ passes[i].last < Tue0900
        /\ DOMAIN passes[i].tasks = {"t1", "A"}
        /\ passes[i].tasks["A"] = UserTasks[2]
        /\ Emitted("pa", Tue1005) = 1
        /\ Emitted("ping", Tue1005) = 0

\* C26: a field that parse returns is either a wildcard or holds explicit
\* values, at least one, and never both.
C26_WildcardOrExplicitValues ==
    (f_pc \in {"parsed", "matched"} /\ f_parsed.ok) =>
        \/ f_parsed.field.all /\ f_parsed.field.specifics = NoSpecifics
        \/ ~f_parsed.field.all /\ f_parsed.field.specifics # NoSpecifics

\* C27: the explicit values of a field that parse returns all lie in the
\* field's domain, whatever the form of the text.
C27_ExplicitValuesInDomain ==
    (f_pc \in {"parsed", "matched"} /\ f_parsed.ok) =>
        \A i \in 1..Len(f_parsed.field.specifics) :
            f_parsed.field.specifics[i] \in Domain(f_kind)

\* C23: a turn of recv_loop on a message that is rejected leaves the registry
\* and the table as they were before the message.
C23_RejectedMessageHasNoEffect ==
    [][(nrecv' = nrecv + 1 /\ InboxKind[lastmsg'] = "malformed") =>
          (tasks' = tasks /\ store' = store)]_vars

C23_Witness ==
    /\ main_pc = "recv"
    /\ lastmsg = 10
    /\ logged
    /\ "A" \in DOMAIN store

\* C24: the table holds one version-1 row for every id whose latest
\* well-formed message is a registration, carrying the schedule, the zone and
\* the payload of that registration, and no row for an id whose latest message
\* is a cancellation.
C24_StoreHoldsLatestRegistration ==
    \A u \in Ids :
        /\ acked[u].state = "live" =>
              LET body == Inbox[acked[u].reg][2]
              IN  /\ u \in DOMAIN store
                  /\ store[u].version = 1
                  /\ store[u].payload = body[4]
                  /\ store[u].tzinfo =
                        (IF body[3] = Nil THEN TIMEZONE ELSE body[3])
                  /\ CronEntry_parse(store[u].schedule) =
                        CronEntry_parse(body[2][2])
        /\ acked[u].state = "cancelled" => u \notin DOMAIN store

\* C25: when recv_loop starts, main has not been left, and every row of the
\* table that loads is an entry of the registry.
C25_StartupLoadsEveryGoodRow ==
    (main_pc # "start" /\ nrecv = 0) =>
        /\ main_pc = "recv"
        /\ \A u \in DOMAIN store :
              ( /\ store[u].version = 1
                /\ CronEntry_parse(store[u].schedule).ok
                /\ pytz_timezone(store[u].tzinfo).ok ) =>
                  (u \in DOMAIN tasks /\ tasks[u] = row_task(store, u))

\* C21: while a safe_send coroutine is inside socket.send the dispatch loop
\* does not hold the lock and is not inside its locked block, so add_task and
\* remove_task can take the lock.
C21_NoSendWhileLoopHoldsLock ==
    sending # EmptyBag => (iter_lock = "free" /\ Idle)

C21_Witness ==
    /\ sending # EmptyBag
    /\ iter_lock = "free"
    /\ Len(passes) = 1
    /\ tasks # passes[1].tasks

\* C22: the dispatch loop holds the lock exactly while it is inside its locked
\* block; the registry changes only in a step that finds the lock free and
\* leaves it free; a pass is recorded only by the holder of the lock, of the
\* registry as it stands in that step.
C22_CriticalSectionsExclusive ==
    /\ [](iter_lock = "loop" <=> loop_task = "locked")
    /\ [][tasks' # tasks => (iter_lock = "free" /\ iter_lock' = "free")]_vars
    /\ [][Len(passes') > Len(passes) =>
            /\ iter_lock = "loop"
            /\ tasks' = tasks
            /\ passes'[Len(passes')].tasks = tasks]_vars

C22_Witness ==
    /\ loop_task = "locked"
    /\ iter_lock = "loop"
    /\ tasks # EmptyMap
    /\ calls < MaxCalls

=============================================================================
